---- MODULE Spec2Model ----
(***************************************************************************)
(* LinguaScope: the job pipeline of App (jobReducer, handleJobSubmit), the *)
(* two apiService variants (direct calls to the model, and calls relayed   *)
(* through api/proxy.ts) and the text helpers they rest on.                *)
(*                                                                         *)
(* Text is a sequence of tokens.  A token is one character ("a", " ",      *)
(* "\n", "<", ">"; "BQ" is the backquote), or a run the code never looks   *)
(* into: a well-formed tag ("<p>", "</p>", "<br>"), the character          *)
(* reference "&nbsp;", or the text of one JSON document ("{A}", "null").   *)
(* "NBSP" is the single character U+00A0 a DOM parser decodes "&nbsp;" to. *)
(* Messages of errors are sequences of message parts, so that a prefix put *)
(* before a message is a concatenation.  null is <<>> and a non-null       *)
(* value x is <<x>>.                                                       *)
(***************************************************************************)
EXTENDS Naturals, Integers, Sequences, FiniteSets, TLC

VARIABLES state, model, variant, pc, job, dispatched, calls, probe, display

vars == <<state, model, variant, pc, job, dispatched, calls, probe, display>>

----------------------------------------------------------------------------
(* Bounds of the model *)

\* The clock (performance.now()) reads 0..MaxTime.
MaxTime == 1

\* Longest response text the language-detection model gives in DetectSpec.
MaxRespLen == 3

----------------------------------------------------------------------------
(* null and option values *)

Null == <<>>

Some(x) == <<x>>

Ok(v) == [ok |-> TRUE, value |-> v]

Err(m) == [ok |-> FALSE, error |-> m]

Min(a, b) == IF a < b THEN a ELSE b

----------------------------------------------------------------------------
(* Characters and strings *)

\* Tokens that stand for a well-formed tag: "<", a name, attributes, ">".
\* An anchor's href is absolute (abs), relative (rel), not parseable as a
\* URL (bad) or the empty string; abs(rel) is a relative href resolved.
AnchorTokens ==
  {"<a>", "<a href=abs>", "<a href=rel>", "<a href=bad>", "<a href=>",
   "<a href=abs target rel>", "<a href=abs(rel) target rel>"}

TagTokens ==
  {"<p>", "</p>", "<br>", "<b>", "</b>", "<h4>", "</h4>", "<div>", "</div>",
   "<p class>", "<p onclick>", "</a>"} \cup AnchorTokens

LowerLetters == {"a", "e", "k", "n", "o"}

UpperLetters == {"E", "K", "O"}

Digits == {"1"}

\* The JSON literal null is a run of word characters.
WordTokens == {"null"}

\* String.prototype.trim and the regular expression class \s.
IsWs(c) == c \in {" ", "\n", "NBSP"}

\* The regular expression class \w.
IsWordChar(c) == c \in LowerLetters \cup UpperLetters \cup Digits \cup WordTokens

LowerOf(c) ==
  CASE c = "E" -> "e"
    [] c = "K" -> "k"
    [] c = "O" -> "o"
    [] OTHER -> c

\* The string without the tokens of toks.
RECURSIVE Without(_, _)
Without(s, toks) ==
  IF s = <<>> THEN <<>>
  ELSE IF Head(s) \in toks THEN Without(Tail(s), toks)
  ELSE <<Head(s)>> \o Without(Tail(s), toks)

toLowerCase(s) == [i \in 1..Len(s) |-> LowerOf(s[i])]

RECURSIVE trimStart(_)
trimStart(s) ==
  IF s = <<>> THEN <<>>
  ELSE IF IsWs(Head(s)) THEN trimStart(Tail(s))
  ELSE s

RECURSIVE trimEnd(_)
trimEnd(s) ==
  IF s = <<>> THEN <<>>
  ELSE IF IsWs(s[Len(s)]) THEN trimEnd(SubSeq(s, 1, Len(s) - 1))
  ELSE s

trim(s) == trimEnd(trimStart(s))

substring(s, from, to) == SubSeq(s, from + 1, Min(to, Len(s)))

\* The test of langCode against two letters a-z, anchored at both ends.
IsTwoLetterCode(langCode) ==
  /\ Len(langCode) = 2
  /\ langCode[1] \in LowerLetters
  /\ langCode[2] \in LowerLetters

KO == <<"k", "o">>

EN == <<"e", "n">>

\* A token in which the character ">" occurs.
HasGt(c) == c = ">" \/ c \in TagTokens

\* The least i >= from with HasGt(s[i]), or 0.
FirstGt(s, from) ==
  LET hits == {i \in from..Len(s) : HasGt(s[i])}
  IN  IF hits = {} THEN 0 ELSE CHOOSE i \in hits : \A j \in hits : i <= j

\* contentHtml.replace with the tag pattern and the g flag: every "<" that a
\* ">" follows is removed together with everything up to the first such ">".
RECURSIVE StripTags(_)
StripTags(s) ==
  IF s = <<>> THEN <<>>
  ELSE IF Head(s) \in TagTokens THEN StripTags(Tail(s))
  ELSE IF Head(s) = "<" /\ FirstGt(s, 2) # 0
       THEN StripTags(SubSeq(s, FirstGt(s, 2) + 1, Len(s)))
  ELSE <<Head(s)>> \o StripTags(Tail(s))

\* div.innerHTML = html; div.textContent: the HTML tokenizer opens a tag at
\* "<" only before an ASCII letter, drops a tag the input ends in, and
\* decodes character references.
RECURSIVE TextContent(_)
TextContent(s) ==
  IF s = <<>> THEN <<>>
  ELSE IF Head(s) \in TagTokens THEN TextContent(Tail(s))
  ELSE IF Head(s) = "<" /\ Len(s) >= 2 /\ s[2] \in LowerLetters \cup UpperLetters
       THEN IF FirstGt(s, 2) # 0
            THEN TextContent(SubSeq(s, FirstGt(s, 2) + 1, Len(s)))
            ELSE <<>>
  ELSE IF Head(s) = "&nbsp;" THEN <<"NBSP">> \o TextContent(Tail(s))
  ELSE <<Head(s)>> \o TextContent(Tail(s))

SampleMaxLength == 1000

\* extractTextSample without its trim.
extractTextSampleUntrimmed(html) == substring(TextContent(html), 0, SampleMaxLength)

\* extractTextSample: part_001 lines 160-164.
extractTextSample(html) == substring(trim(TextContent(html)), 0, SampleMaxLength)

RECURSIVE DropWord(_)
DropWord(s) ==
  IF s = <<>> THEN <<>>
  ELSE IF IsWordChar(Head(s)) THEN DropWord(Tail(s))
  ELSE s

\* The code fence: three backquotes.
Fence == <<"BQ", "BQ", "BQ">>

\* codeBlockRegex on the trimmed text: an opening fence, an optional run of
\* word characters, white space, a lazy group, white space and the closing
\* fence at the end.  The two fences may not overlap; the greedy runs take all
\* they can; the lazy group ends where only white space is left before the
\* closing fence.
MatchCodeBlock(textToClean) ==
  LET n == Len(textToClean)
      fenced == /\ n >= 6
                /\ SubSeq(textToClean, 1, 3) = Fence
                /\ SubSeq(textToClean, n - 2, n) = Fence
  IN  IF fenced
      THEN Some(trimEnd(trimStart(DropWord(SubSeq(textToClean, 4, n - 3)))))
      ELSE Null

\* The text returned whether or not the expression matched.
CodeBlockOrWhole(match, textToClean) == textToClean

\* match && match[1] ? match[1].trim() : textToClean
CodeBlockOr(match, textToClean) ==
  IF match # Null /\ match[1] # <<>> THEN trim(match[1]) ELSE textToClean

StripFence(textToClean) == CodeBlockOr(MatchCodeBlock(textToClean), textToClean)

stripMarkdown(text) == StripFence(trim(text))

----------------------------------------------------------------------------
(* JSON documents and JavaScript values *)

AnalysisKeys == {"title", "oneLineSummary", "keyPoints", "keyPlayers", "keywords"}

TranslatedKeys == AnalysisKeys \ {"title"}

\* The value of field k in the source language (n = 0) or translated (n = 1).
FieldValue(k, n) == <<k, n>>

EmptyString == <<"", 0>>

Undefined == <<"undefined", 0>>

Object(keys, n) == [kind |-> "object", fields |-> [k \in keys |-> FieldValue(k, n)]]

JsNull == [kind |-> "null", fields |-> [k \in {} |-> Undefined]]

JsNumber == [kind |-> "number", fields |-> [k \in {} |-> Undefined]]

\* The JSON documents the model may answer with: each is one token of text.
JsonTokens ==
  {"{A}", "{A-title}", "{A-keywords}", "{A:title=''}", "{T}", "{T+title}",
   "{T-summary}", "{}", "null"}

JsonOf(tok) ==
  CASE tok = "{A}" -> Object(AnalysisKeys, 0)
    [] tok = "{A-title}" -> Object(AnalysisKeys \ {"title"}, 0)
    [] tok = "{A-keywords}" -> Object(AnalysisKeys \ {"keywords"}, 0)
    [] tok = "{A:title=''}" ->
         [kind |-> "object",
          fields |-> [k \in AnalysisKeys |->
                        IF k = "title" THEN EmptyString ELSE FieldValue(k, 0)]]
    [] tok = "{T}" -> Object(TranslatedKeys, 1)
    [] tok = "{T+title}" -> Object(AnalysisKeys, 1)
    [] tok = "{T-summary}" -> Object(TranslatedKeys \ {"oneLineSummary"}, 1)
    [] tok = "{}" -> Object({}, 0)
    [] tok = "null" -> JsNull

\* JSON.parse: white space around the document is allowed (not U+00A0).
JsonSpace(c) == c \in {" ", "\n"}

RECURSIVE JsonBody(_)
JsonBody(s) ==
  IF s # <<>> /\ JsonSpace(Head(s)) THEN JsonBody(Tail(s))
  ELSE IF s # <<>> /\ JsonSpace(s[Len(s)]) THEN JsonBody(SubSeq(s, 1, Len(s) - 1))
  ELSE s

ParseDocument(body) ==
  IF Len(body) = 1 /\ body[1] \in JsonTokens
  THEN Ok(JsonOf(body[1]))
  ELSE IF body # <<>> /\ \A i \in 1..Len(body) : body[i] \in Digits
  THEN Ok(JsNumber)
  ELSE Err(<<"SyntaxError: the text is not valid JSON">>)

JSONparse(s) == ParseDocument(JsonBody(s))

\* Reading a property throws on null and yields undefined for a missing key.
CanRead(v) == v.kind # "null"

Get(v, k) == IF k \in DOMAIN v.fields THEN v.fields[k] ELSE Undefined

Truthy(x) == x # EmptyString /\ x # Undefined

TypeErrorMessage == <<"TypeError: Cannot read properties of null">>

\* {...a, ...b}: the own properties of a, then those of b over them.
Spread(a, b) ==
  [kind |-> "object",
   fields |-> [k \in DOMAIN a.fields \cup DOMAIN b.fields |->
                 IF k \in DOMAIN b.fields THEN b.fields[k] ELSE a.fields[k]]]

\* error.message.includes('JSON') || error.message.includes('object')
PartsNamingJsonOrObject ==
  {"AI analysis failed: the AI did not return a valid JSON format.",
   "SyntaxError: the text is not valid JSON",
   "400 Invalid JSON payload received"}

MentionsJsonOrObject(m) == \E i \in 1..Len(m) : m[i] \in PartsNamingJsonOrObject

----------------------------------------------------------------------------
(* The model (ai.models.generateContent) and the transports, as the        *)
(* environment: an outcome is what one call returns or throws.             *)

Throws(m) == [kind |-> "throw", message |-> m, text |-> <<>>]

Returns(t) == [kind |-> "text", message |-> <<>>, text |-> t]

ApiErrors == {<<"503 UNAVAILABLE">>, <<"400 Invalid JSON payload received">>}

----------------------------------------------------------------------------
(* apiService, direct variant: src/unnamed/part_001 *)

\* A result of a service call: called says whether generateContent ran.
OkC(v, c) == [ok |-> TRUE, value |-> v, called |-> c]

ErrC(m, c) == [ok |-> FALSE, error |-> m, called |-> c]

\* The langCode without toLowerCase.
LangCodeOfCaseKept(text) == trim(text)

\* The langCode of a response: trimmed, in lower case.
LangCodeOf(text) == toLowerCase(trim(text))

\* The two-letter test and the fallback: part_001 lines 193-199, api/proxy.ts
\* line 91.
ValidOrEn(langCode) == IF IsTwoLetterCode(langCode) THEN langCode ELSE EN

CoerceLangCode(text) == ValidOrEn(LangCodeOf(text))

DirectDetectLanguage(contentHtml, outcome) ==
  IF extractTextSample(contentHtml) = <<>> THEN OkC(KO, FALSE)
  ELSE IF outcome.kind = "throw" THEN OkC(EN, TRUE)
  ELSE OkC(CoerceLangCode(outcome.text), TRUE)

\* The outer catch of performAnalysis: part_001 lines 282-291.
AnalysisRethrow(m) ==
  IF MentionsJsonOrObject(m)
  THEN ErrC(<<"AI analysis failed: the AI did not return valid JSON.">>, TRUE)
  ELSE ErrC(<<"AI analysis failed: ">> \o m, TRUE)

\* part_001 lines 268-280, on the outcome of JSON.parse.
CheckAnalysis(parsed) ==
  IF ~parsed.ok
  THEN AnalysisRethrow(<<"AI analysis failed: the AI did not return a valid JSON format.">>)
  ELSE IF ~CanRead(parsed.value) THEN AnalysisRethrow(TypeErrorMessage)
  ELSE IF \E k \in AnalysisKeys : ~Truthy(Get(parsed.value, k))
  THEN AnalysisRethrow(<<"AI analysis response is missing required fields.">>)
  ELSE OkC(parsed.value, TRUE)

DirectPerformAnalysis(contentHtml, aiModel, outcome) ==
  IF outcome.kind = "throw" THEN AnalysisRethrow(outcome.message)
  ELSE CheckAnalysis(JSONparse(stripMarkdown(outcome.text)))

\* part_001 lines 335-340 and api/proxy.ts lines 140-141, on the outcome of
\* JSON.parse; prefix is what the catch puts before the message.
MergeTranslation(analysis, parsed, prefix) ==
  IF ~parsed.ok THEN ErrC(prefix \o parsed.error, TRUE)
  ELSE OkC(Spread(analysis, parsed.value), TRUE)

TranslateAnalysisWith(analysis, outcome, prefix) ==
  IF ~CanRead(analysis) THEN ErrC(prefix \o TypeErrorMessage, FALSE)
  ELSE IF outcome.kind = "throw" THEN ErrC(prefix \o outcome.message, TRUE)
  ELSE MergeTranslation(analysis, JSONparse(stripMarkdown(outcome.text)), prefix)

DirectTranslateAnalysis(analysis, aiModel, outcome) ==
  TranslateAnalysisWith(analysis, outcome, <<"AI analysis translation failed: ">>)

DirectPerformTranslation(contentHtml, aiModel, outcome) ==
  IF outcome.kind = "throw"
  THEN ErrC(<<"AI translation failed: ">> \o outcome.message, TRUE)
  ELSE OkC(stripMarkdown(outcome.text), TRUE)

\* enhancedHtml.startsWith('<')
StartsWithLt(s) == s # <<>> /\ (s[1] \in TagTokens \/ s[1] = "<")

\* part_001 lines 414-421, on the text of the response; the throw lands in
\* the catch of lines 423-429.
DirectValidHtml(enhancedHtml) ==
  IF enhancedHtml = <<>> \/ ~StartsWithLt(enhancedHtml)
  THEN ErrC(<<"Readability enhancement failed: ",
              "AI did not return a valid HTML response.">>, TRUE)
  ELSE OkC(enhancedHtml, TRUE)

DirectEnhanceReadability(contentHtml, outcome) ==
  IF outcome.kind = "throw"
  THEN ErrC(<<"Readability enhancement failed: ">> \o outcome.message, TRUE)
  ELSE DirectValidHtml(stripMarkdown(outcome.text))

----------------------------------------------------------------------------
(* The proxy endpoint: src/api/proxy.ts *)

\* api/proxy.ts line 81.
ProxyTextSample(contentHtml) == substring(trim(StripTags(contentHtml)), 0, SampleMaxLength)

ProxyDetectLanguage(contentHtml, outcome) ==
  IF ProxyTextSample(contentHtml) = <<>> THEN OkC(KO, FALSE)
  ELSE IF outcome.kind = "throw" THEN ErrC(outcome.message, TRUE)
  ELSE OkC(CoerceLangCode(outcome.text), TRUE)

\* api/proxy.ts line 115, on the outcome of JSON.parse.
ParsedOrThrow(parsed) ==
  IF ~parsed.ok THEN ErrC(parsed.error, TRUE) ELSE OkC(parsed.value, TRUE)

ProxyPerformAnalysis(contentHtml, aiModel, outcome) ==
  IF outcome.kind = "throw" THEN ErrC(outcome.message, TRUE)
  ELSE ParsedOrThrow(JSONparse(stripMarkdown(outcome.text)))

ProxyTranslateAnalysis(analysis, aiModel, outcome) ==
  TranslateAnalysisWith(analysis, outcome, <<>>)

ProxyPerformTranslation(contentHtml, aiModel, outcome) ==
  IF outcome.kind = "throw" THEN ErrC(outcome.message, TRUE)
  ELSE OkC(stripMarkdown(outcome.text), TRUE)

\* The test of lines 162-164 letting every response through.
ValidHtmlAlways(enhancedHtml) == OkC(enhancedHtml, TRUE)

\* api/proxy.ts lines 161-165, on the text of the response.
ValidHtmlOrThrow(enhancedHtml) ==
  IF enhancedHtml = <<>> \/ ~StartsWithLt(enhancedHtml)
  THEN ErrC(<<"AI did not return a valid HTML response.">>, TRUE)
  ELSE OkC(enhancedHtml, TRUE)

ProxyEnhanceReadability(contentHtml, outcome) ==
  IF outcome.kind = "throw" THEN ErrC(outcome.message, TRUE)
  ELSE ValidHtmlOrThrow(stripMarkdown(outcome.text))

\* The operation the handler's switch selects, applied to its payload.
ProxyOperation(action, payload, outcome) ==
  CASE action = "detectLanguage" -> ProxyDetectLanguage(payload.contentHtml, outcome)
    [] action = "performAnalysis" ->
         ProxyPerformAnalysis(payload.contentHtml, payload.model, outcome)
    [] action = "translateAnalysis" ->
         ProxyTranslateAnalysis(payload.analysis, payload.model, outcome)
    [] action = "performTranslation" ->
         ProxyPerformTranslation(payload.contentHtml, payload.model, outcome)
    [] action = "enhanceReadability" -> ProxyEnhanceReadability(payload.contentHtml, outcome)

ProxyActions ==
  {"detectLanguage", "performAnalysis", "translateAnalysis", "performTranslation",
   "enhanceReadability"}

\* handler: the response it sends, and whether generateContent ran.
\* Lines 50-54: the reply to what the selected operation returned or threw.
Reply(r) ==
  IF r.ok
  THEN [sent |-> TRUE, status |-> 200, result |-> Some(r.value), error |-> <<>>,
        called |-> r.called]
  ELSE [sent |-> TRUE, status |-> 500, result |-> Null,
        error |-> IF r.error # <<>> THEN r.error
                  ELSE <<"An internal server error occurred.">>,
        called |-> r.called]

\* A reply without a result: res.status(status).json({ error }).
Refusal(status, error) ==
  [sent |-> TRUE, status |-> status, result |-> Null, error |-> error, called |-> FALSE]

\* The handler's promise rejects before any res.status(...).json(...): the
\* handler has sent nothing (status 0 stands for no status).
NoResponse ==
  [sent |-> FALSE, status |-> 0, result |-> Null,
   error |-> <<"TypeError: Cannot destructure property 'action' of 'req.body'">>,
   called |-> FALSE]

\* Lines 29-54, the try block: action and payload are those of the body; a
\* body without a payload makes the selected operation's argument
\* (payload.contentHtml, payload.analysis) throw a TypeError.
Dispatch(action, payload, outcome) ==
  IF action \notin ProxyActions THEN Refusal(400, <<"Invalid action">>)
  ELSE IF payload = Null
  THEN Reply(ErrC(<<"TypeError: Cannot read properties of undefined">>, FALSE))
  ELSE Reply(ProxyOperation(action, payload[1], outcome))

\* A request is [method, body]; the body is Null (undefined: nothing was
\* parsed) or Some([action, payload]), its payload Null when it is missing.
\* Line 27 destructures req.body before the try block is entered.
handler(req, outcome) ==
  IF req.method # "POST" THEN Refusal(405, <<"Method Not Allowed">>)
  ELSE IF req.body = Null THEN NoResponse
  ELSE Dispatch(req.body[1].action, req.body[1].payload, outcome)

----------------------------------------------------------------------------
(* apiService, proxied variant: src/unnamed/part_002 *)

Transports == {"delivered", "failed"}

\* part_002 lines 16-29, on the response of the endpoint.
ResultOf(response) ==
  IF ~(response.status >= 200 /\ response.status <= 299)
  THEN ErrC(<<"Request failed: ">> \o
              (IF response.error # <<>> THEN response.error
               ELSE <<"Server error: ", ToString(response.status)>>),
            response.called)
  ELSE OkC(response.result[1], response.called)

callApiProxy(action, payload, transport, outcome) ==
  IF transport = "failed"
  THEN ErrC(<<"Request failed: ", "TypeError: Failed to fetch">>, FALSE)
  ELSE ResultOf(handler([method |-> "POST",
                          body |-> Some([action |-> action, payload |-> Some(payload)])],
                         outcome))

----------------------------------------------------------------------------
(* The service the App imports ('./services/apiService'), by variant.  env *)
(* is what the environment does with the call: [transport, outcome].       *)

Variants == {"direct", "proxied"}

detectLanguage(v, contentHtml, env) ==
  IF v = "direct" THEN DirectDetectLanguage(contentHtml, env.outcome)
  ELSE callApiProxy("detectLanguage", [contentHtml |-> contentHtml],
                    env.transport, env.outcome)

performAnalysis(v, contentHtml, aiModel, env) ==
  IF v = "direct" THEN DirectPerformAnalysis(contentHtml, aiModel, env.outcome)
  ELSE callApiProxy("performAnalysis", [contentHtml |-> contentHtml, model |-> aiModel],
                    env.transport, env.outcome)

translateAnalysis(v, analysis, aiModel, env) ==
  IF v = "direct" THEN DirectTranslateAnalysis(analysis, aiModel, env.outcome)
  ELSE callApiProxy("translateAnalysis", [analysis |-> analysis, model |-> aiModel],
                    env.transport, env.outcome)

performTranslation(v, contentHtml, aiModel, env) ==
  IF v = "direct" THEN DirectPerformTranslation(contentHtml, aiModel, env.outcome)
  ELSE callApiProxy("performTranslation", [contentHtml |-> contentHtml, model |-> aiModel],
                    env.transport, env.outcome)

enhanceReadability(v, contentHtml, env) ==
  IF v = "direct" THEN DirectEnhanceReadability(contentHtml, env.outcome)
  ELSE callApiProxy("enhanceReadability", [contentHtml |-> contentHtml],
                    env.transport, env.outcome)

----------------------------------------------------------------------------
(* fetchUrlContent: part_001 lines 55-157, part_002 lines 43-106 *)

\* The name of the element a tag token opens or closes.
TagName(tok) ==
  CASE tok \in {"<p>", "</p>", "<p class>", "<p onclick>"} -> "p"
    [] tok = "<br>" -> "br"
    [] tok \in {"<b>", "</b>"} -> "b"
    [] tok \in {"<h4>", "</h4>"} -> "h4"
    [] tok \in {"<div>", "</div>"} -> "div"
    [] tok \in AnchorTokens \cup {"</a>"} -> "a"

\* The names of the attributes a tag token carries.
TagAttrs(tok) ==
  CASE tok = "<p class>" -> {"class"}
    [] tok = "<p onclick>" -> {"onclick"}
    [] tok \in {"<a href=abs>", "<a href=rel>", "<a href=bad>", "<a href=>"} -> {"href"}
    [] tok \in {"<a href=abs target rel>", "<a href=abs(rel) target rel>"} ->
         {"href", "target", "rel"}
    [] OTHER -> {}

\* What a.getAttribute('href') of an anchor token is.
HrefKind(tok) ==
  CASE tok \in {"<a href=abs>", "<a href=abs target rel>", "<a href=abs(rel) target rel>"} ->
         "absolute"
    [] tok = "<a href=rel>" -> "relative"
    [] tok = "<a href=bad>" -> "unparseable"
    [] tok = "<a href=>" -> "empty"
    [] OTHER -> "none"

\* The opening tag of the same element without attributes.
Bare(tok) ==
  CASE tok \in {"<p class>", "<p onclick>"} -> "<p>"
    [] tok \in AnchorTokens -> "<a>"
    [] OTHER -> tok

\* ALLOWED_TAGS of the DOMPurify.sanitize call.
AllowedTags(v) ==
  IF v = "direct"
  THEN {"h1", "h2", "h3", "h4", "h5", "h6", "p", "b", "i", "em", "strong", "ul", "ol",
        "li", "a", "br", "blockquote", "pre", "code", "table", "thead", "tbody", "tr",
        "th", "td"}
  ELSE {"h1", "h2", "h3", "p", "b", "i", "em", "strong", "ul", "ol", "li", "a", "br",
        "blockquote", "pre", "code"}

\* The tags and attributes of DOMPurify's html profile that the model's
\* tokens use (the profile has every HTML element but script and the like,
\* and the HTML attributes but the event handlers).
HtmlProfileTags ==
  {"h1", "h2", "h3", "h4", "h5", "h6", "p", "b", "i", "em", "strong", "ul", "ol", "li",
   "a", "br", "blockquote", "pre", "code", "table", "thead", "tbody", "tr", "th", "td",
   "div", "span", "img"}

HtmlProfileAttrs == {"href", "class", "id", "title", "target", "rel", "src"}

\* The sets DOMPurify works with: the call passes USE_PROFILES { html: true }
\* (part_001 line 107, part_002 line 71), and DOMPurify, on a configuration
\* with USE_PROFILES, builds both sets from the profile in place of the
\* ALLOWED_TAGS and ALLOWED_ATTR passed with it.
EffectiveTags(v) == HtmlProfileTags

EffectiveAttrs(v) == HtmlProfileAttrs

\* One tag after DOMPurify: its attributes outside the set are removed.
SanitizeTag(v, tok) == IF TagAttrs(tok) \subseteq EffectiveAttrs(v) THEN tok ELSE Bare(tok)

\* DOMPurify.sanitize: an element outside the set of tags is removed and its
\* content kept.
RECURSIVE Sanitize(_, _)
Sanitize(v, s) ==
  IF s = <<>> THEN <<>>
  ELSE IF Head(s) \in TagTokens /\ TagName(Head(s)) \notin EffectiveTags(v)
       THEN Sanitize(v, Tail(s))
  ELSE IF Head(s) \in TagTokens
       THEN <<SanitizeTag(v, Head(s))>> \o Sanitize(v, Tail(s))
  ELSE <<Head(s)>> \o Sanitize(v, Tail(s))

\* new URL(href, url) succeeds: the base has a scheme and the href parses.
HasScheme(url) == url = <<"http://site/page">>

\* Lines 118-130 on one anchor: an href that is not empty is resolved
\* against url and target and rel are set; when new URL throws the href is
\* removed.
RewriteLink(tok, url) ==
  IF tok \notin AnchorTokens \/ HrefKind(tok) \in {"none", "empty"} THEN tok
  ELSE IF ~HasScheme(url) \/ HrefKind(tok) = "unparseable" THEN "<a>"
  ELSE IF HrefKind(tok) = "relative" THEN "<a href=abs(rel) target rel>"
  ELSE "<a href=abs target rel>"

\* contentDoc.querySelectorAll('a').forEach(...), then body.innerHTML.
RewriteLinks(s, url) == [i \in 1..Len(s) |-> RewriteLink(s[i], url)]

\* The guidance added to the message for a status: part_001 lines 67-80.
StatusHint(status) ==
  CASE status = 403 -> <<" The target server may have refused access.">>
    [] status = 404 -> <<" The page was not found. Check the URL.">>
    [] status \in {500, 502, 503, 504} ->
         <<" The target server or the proxy service has a problem.">>
    [] OTHER -> <<>>

HttpErrorMessage(v, status, statusText) ==
  IF v = "direct"
  THEN <<"The server answered with code ", ToString(status), ".">>
         \o (IF statusText # <<>> THEN <<" (">> \o statusText \o <<")">> ELSE <<>>)
         \o StatusHint(status)
  ELSE <<"The server answered with code ", ToString(status), ". (">>
         \o statusText \o <<")">>

NoTextMessage(v) ==
  IF v = "direct"
  THEN <<"No text content could be extracted from the page. It may load dynamically.">>
  ELSE <<"No text content could be extracted from the page.">>

NetworkFailureMessage(v) ==
  IF v = "direct"
  THEN <<"The network request failed. Check the connection or the proxy service.">>
  ELSE <<"TypeError: Failed to fetch">>

\* relay is what the CORS relay does: the fetch fails, or it answers with a
\* status and a page; markup is what the readability stage or the manual
\* fallback hands to the sanitizer (contentToProcess).
\* part_001 lines 133-144: the fragment, unless it holds no text.
CheckedHtml(v, finalHtml) ==
  IF trim(TextContent(finalHtml)) = <<>> THEN Err(NoTextMessage(v)) ELSE Ok(finalHtml)

fetchUrlContent(v, url, relay) ==
  IF relay.kind = "failed" THEN Err(NetworkFailureMessage(v))
  ELSE IF ~(relay.status >= 200 /\ relay.status <= 299)
  THEN Err(HttpErrorMessage(v, relay.status, relay.statusText))
  ELSE CheckedHtml(v, RewriteLinks(Sanitize(v, relay.markup), url))

----------------------------------------------------------------------------
(* The normalizer of pasted text: part_003 lines 94-98 *)

RECURSIVE DropNewlines(_)
DropNewlines(s) ==
  IF s # <<>> /\ Head(s) = "\n" THEN DropNewlines(Tail(s)) ELSE s

\* value.split of runs of two or more newlines; cur is the block being read.
RECURSIVE SplitBlocks(_, _)
SplitBlocks(s, cur) ==
  IF s = <<>> THEN <<cur>>
  ELSE IF Len(s) >= 2 /\ s[1] = "\n" /\ s[2] = "\n"
       THEN <<cur>> \o SplitBlocks(DropNewlines(s), <<>>)
  ELSE SplitBlocks(Tail(s), Append(cur, Head(s)))

\* p.split('\n').join('<br>')
RECURSIVE JoinLines(_)
JoinLines(p) ==
  IF p = <<>> THEN <<>>
  ELSE (IF Head(p) = "\n" THEN <<"<br>">> ELSE <<Head(p)>>) \o JoinLines(Tail(p))

RECURSIVE WrapAll(_)
WrapAll(paragraphs) ==
  IF paragraphs = <<>> THEN <<>>
  ELSE <<"<p>">> \o JoinLines(Head(paragraphs)) \o <<"</p>">> \o WrapAll(Tail(paragraphs))

NormalizeText(value) == WrapAll(SplitBlocks(value, <<>>))

----------------------------------------------------------------------------
(* jobReducer: part_003 lines 28-74 *)

initialState ==
  [uiState |-> "DEFAULT", jobStatus |-> Null, currentResult |-> Null, error |-> Null,
   inputValue |-> <<>>, jobStartTime |-> Null]

JOB_START(value, startTime) == [type |-> "JOB_START", value |-> value, startTime |-> startTime]

JOB_PROGRESS(status) == [type |-> "JOB_PROGRESS", status |-> status]

JOB_SUCCESS(result) == [type |-> "JOB_SUCCESS", result |-> result]

JOB_ERROR(error) == [type |-> "JOB_ERROR", error |-> error]

RESET == [type |-> "RESET"]

\* jobReducer with JOB_START spreading state in place of initialState.
jobReducerKeepingState(st, action) ==
  CASE action.type = "JOB_START" ->
         [st EXCEPT !.uiState = "PROCESSING",
                    !.inputValue = action.value,
                    !.jobStartTime = Some(action.startTime),
                    !.jobStatus = Some("QUEUED")]
    [] action.type = "JOB_PROGRESS" ->
         [st EXCEPT !.jobStatus = Some(action.status)]
    [] action.type = "JOB_SUCCESS" ->
         [st EXCEPT !.uiState = "COMPLETE",
                    !.jobStatus = Some("COMPLETED"),
                    !.currentResult = Some(action.result),
                    !.error = Null]
    [] action.type = "JOB_ERROR" ->
         [st EXCEPT !.uiState = "ERROR",
                    !.jobStatus = Some("FAILED"),
                    !.error = Some(action.error)]
    [] action.type = "RESET" -> initialState
    [] OTHER -> st

\* jobReducer: part_003 lines 37-74.
jobReducer(st, action) ==
  CASE action.type = "JOB_START" ->
         [initialState EXCEPT !.uiState = "PROCESSING",
                              !.inputValue = action.value,
                              !.jobStartTime = Some(action.startTime),
                              !.jobStatus = Some("QUEUED")]
    [] action.type = "JOB_PROGRESS" ->
         [st EXCEPT !.jobStatus = Some(action.status)]
    [] action.type = "JOB_SUCCESS" ->
         [st EXCEPT !.uiState = "COMPLETE",
                    !.jobStatus = Some("COMPLETED"),
                    !.currentResult = Some(action.result),
                    !.error = Null]
    [] action.type = "JOB_ERROR" ->
         [st EXCEPT !.uiState = "ERROR",
                    !.jobStatus = Some("FAILED"),
                    !.error = Some(action.error)]
    [] action.type = "RESET" -> initialState
    [] OTHER -> st

\* The state after the actions of a sequence, dispatched in order.
RECURSIVE Reduce(_, _)
Reduce(st, actions) ==
  IF actions = <<>> THEN st
  ELSE Reduce(jobReducer(st, Head(actions)), Tail(actions))

----------------------------------------------------------------------------
(* handleJobSubmit: part_003 lines 81-146.  Each step is what one run of   *)
(* the callback does between two awaits: the actions it dispatches, where  *)
(* it stops, its locals, and the calls it starts.                          *)

AiModels == {"gemini-2.5-flash-lite", "gemini-2.5-flash"}

Modes == {"url", "text"}

Pending == "pending"

NoJob ==
  [value |-> <<>>, mode |-> "url", model |-> "gemini-2.5-flash-lite", jobStart |-> 0,
   content |-> <<>>, finalUrl |-> <<>>, language |-> <<>>, rawAnalysisResult |-> Null,
   translatedAnalysis |-> "none", translatedContent |-> "none",
   analysisValue |-> Null, contentValue |-> Null, startedFrom |-> "DEFAULT",
   relayStatus |-> Null]

Step(actions, nextPc, j, started) ==
  [actions |-> actions, pc |-> nextPc, job |-> j, calls |-> started]

\* A catch block that dispatches nothing.
FailSilently(j, message) == Step(<<>>, "idle", j, {})

\* The catch block: lines 143-145.
Fail(j, message) == Step(<<JOB_ERROR(message)>>, "idle", j, {})

ModelCall(name, r) == IF r.called THEN {"model:" \o name} ELSE {}

\* The test of line 111 also taking 'en' as the target language.
IsTargetLanguageOrEnglish(language) == language \in {KO, EN}

\* language === 'ko': line 111.
IsTargetLanguage(language) == language = KO

\* processingTime.total: (jobEnd - jobStart) / 1000, as a fraction.
TotalTime(jobStart, jobEnd) == <<jobEnd - jobStart, 1000>>

\* finalResult with fullTranslation always the content.
FinalResultUntranslated(finalAnalysisResult, finalUrl, content, fullTranslation, totalTime) ==
  [title |-> Get(finalAnalysisResult, "title"),
   originalUrl |-> finalUrl,
   originalContent |-> content,
   processingTime |-> [total |-> totalTime],
   outputs |-> [oneLineSummary |-> Get(finalAnalysisResult, "oneLineSummary"),
                keyPoints |-> Get(finalAnalysisResult, "keyPoints"),
                keyPlayers |-> Get(finalAnalysisResult, "keyPlayers"),
                keywords |-> Get(finalAnalysisResult, "keywords"),
                fullTranslation |-> content]]

\* finalResult: lines 127-139.
FinalResult(finalAnalysisResult, finalUrl, content, fullTranslation, totalTime) ==
  [title |-> Get(finalAnalysisResult, "title"),
   originalUrl |-> finalUrl,
   originalContent |-> content,
   processingTime |-> [total |-> totalTime],
   outputs |-> [oneLineSummary |-> Get(finalAnalysisResult, "oneLineSummary"),
                keyPoints |-> Get(finalAnalysisResult, "keyPoints"),
                keyPlayers |-> Get(finalAnalysisResult, "keyPlayers"),
                keywords |-> Get(finalAnalysisResult, "keywords"),
                fullTranslation |-> fullTranslation]]

\* Lines 124-141: reading a field of a null analysis throws into the catch.
Complete(j, finalAnalysisResult, fullTranslation, jobEnd) ==
  IF ~CanRead(finalAnalysisResult) THEN Fail(j, TypeErrorMessage)
  ELSE Step(<<JOB_SUCCESS(FinalResult(finalAnalysisResult, j.finalUrl, j.content,
                                      fullTranslation,
                                      TotalTime(j.jobStart, jobEnd)))>>,
            "idle", j, {})

\* Lines 82-103 up to the first await.
\* A submission that publishes EXTRACTING for pasted text too.
SubmitStepExtracting(value, mode, aiModel, jobStart) ==
  Step(<<JOB_START(value, jobStart), JOB_PROGRESS("EXTRACTING")>>,
       IF mode = "url" THEN "extracting" ELSE "detecting",
       [NoJob EXCEPT !.value = value, !.mode = mode, !.model = aiModel,
                     !.jobStart = jobStart,
                     !.content = IF mode = "url" THEN <<>> ELSE NormalizeText(value)],
       IF mode = "url" THEN {"fetchUrlContent"} ELSE {"detectLanguage"})

SubmitStep(value, mode, aiModel, jobStart) ==
  IF mode = "url"
  THEN Step(<<JOB_START(value, jobStart), JOB_PROGRESS("EXTRACTING")>>,
            "extracting",
            [NoJob EXCEPT !.value = value, !.mode = mode, !.model = aiModel,
                          !.jobStart = jobStart],
            {"fetchUrlContent"})
  ELSE Step(<<JOB_START(value, jobStart), JOB_PROGRESS("DETECTING_LANGUAGE")>>,
            "detecting",
            [NoJob EXCEPT !.value = value, !.mode = mode, !.model = aiModel,
                          !.jobStart = jobStart,
                          !.content = NormalizeText(value), !.finalUrl = <<>>],
            {"detectLanguage"})

\* Lines 91-103: fetchUrlContent has settled with r.
AfterFetch(j, r) ==
  IF ~r.ok THEN Fail(j, r.error)
  ELSE Step(<<JOB_PROGRESS("DETECTING_LANGUAGE")>>, "detecting",
            [j EXCEPT !.content = r.value, !.finalUrl = j.value],
            {"detectLanguage"})

\* response.status of the relay's answer, when there is one.
RelayStatus(relay) == IF relay.kind = "response" THEN Some(relay.status) ELSE Null

FetchStep(v, j, relay) ==
  AfterFetch([j EXCEPT !.relayStatus = RelayStatus(relay)],
             fetchUrlContent(v, j.value, relay))

\* Lines 103-106: detectLanguage has settled with r.
AfterDetect(j, r) ==
  IF ~r.ok THEN [Fail(j, r.error) EXCEPT !.calls = ModelCall("detectLanguage", r)]
  ELSE Step(<<JOB_PROGRESS("ANALYZING")>>, "analyzing",
            [j EXCEPT !.language = r.value],
            ModelCall("detectLanguage", r) \cup {"performAnalysis"})

DetectStep(v, j, env) == AfterDetect(j, detectLanguage(v, j.content, env))

\* Lines 106-119: performAnalysis has settled with r at time t.
AfterAnalysis(j, r, t) ==
  IF ~r.ok THEN [Fail(j, r.error) EXCEPT !.calls = ModelCall("performAnalysis", r)]
  ELSE IF IsTargetLanguage(j.language)
  THEN [Complete([j EXCEPT !.rawAnalysisResult = Some(r.value)], r.value, j.content, t)
          EXCEPT !.calls = ModelCall("performAnalysis", r)]
  ELSE Step(<<JOB_PROGRESS("TRANSLATING")>>, "translating",
            [j EXCEPT !.rawAnalysisResult = Some(r.value),
                      !.translatedAnalysis = Pending,
                      !.translatedContent = Pending],
            ModelCall("performAnalysis", r)
              \cup {"translateAnalysis", "performTranslation"})

AnalysisStep(v, j, env, t) ==
  AfterAnalysis(j, performAnalysis(v, j.content, j.model, env), t)

\* A join that builds the result as soon as translateAnalysis is fulfilled.
JoinStepEager(j, t) ==
  IF j.translatedAnalysis = "rejected"
  THEN Fail(j, j.analysisValue[1].error)
  ELSE IF j.translatedContent = "rejected"
  THEN Fail(j, j.contentValue[1].error)
  ELSE IF j.translatedAnalysis = "fulfilled"
  THEN Complete(j, j.analysisValue[1].value,
                IF j.translatedContent = "fulfilled" THEN j.contentValue[1].value
                ELSE j.content, t)
  ELSE Step(<<>>, "translating", j, {})

\* Lines 116-122 with Promise.all, once a call has settled: the first
\* rejection goes to the catch; the result is built when both calls are
\* fulfilled.
JoinStep(j, t) ==
  IF j.translatedAnalysis = "rejected"
  THEN Fail(j, j.analysisValue[1].error)
  ELSE IF j.translatedContent = "rejected"
  THEN Fail(j, j.contentValue[1].error)
  ELSE IF j.translatedAnalysis = "fulfilled" /\ j.translatedContent = "fulfilled"
  THEN Complete(j, j.analysisValue[1].value, j.contentValue[1].value, t)
  ELSE Step(<<>>, "translating", j, {})

Settled(r) == IF r.ok THEN "fulfilled" ELSE "rejected"

\* translateAnalysis settling with the join run again after a rejection.
AfterTranslateAnalysisUnguarded(at, j, r, t) ==
  [JoinStep([j EXCEPT !.translatedAnalysis = Settled(r), !.analysisValue = Some(r)], t)
     EXCEPT !.calls = ModelCall("translateAnalysis", r)]

\* translateAnalysis has settled with r.  After the rejection of the other
\* call the promise of Promise.all is settled already: no handler sees r.
AfterTranslateAnalysis(at, j, r, t) ==
  IF at # "translating"
  THEN Step(<<>>, at, [j EXCEPT !.translatedAnalysis = "unobserved"],
            ModelCall("translateAnalysis", r))
  ELSE [JoinStep([j EXCEPT !.translatedAnalysis = Settled(r), !.analysisValue = Some(r)], t)
          EXCEPT !.calls = ModelCall("translateAnalysis", r)]

TranslateAnalysisStep(v, at, j, env, t) ==
  AfterTranslateAnalysis(at, j, translateAnalysis(v, j.rawAnalysisResult[1], j.model, env), t)

\* performTranslation settling with the join run again after a rejection.
AfterPerformTranslationUnguarded(at, j, r, t) ==
  [JoinStep([j EXCEPT !.translatedContent = Settled(r), !.contentValue = Some(r)], t)
     EXCEPT !.calls = ModelCall("performTranslation", r)]

\* performTranslation has settled with r.
AfterPerformTranslation(at, j, r, t) ==
  IF at # "translating"
  THEN Step(<<>>, at, [j EXCEPT !.translatedContent = "unobserved"],
            ModelCall("performTranslation", r))
  ELSE [JoinStep([j EXCEPT !.translatedContent = Settled(r), !.contentValue = Some(r)], t)
          EXCEPT !.calls = ModelCall("performTranslation", r)]

PerformTranslationStep(v, at, j, env, t) ==
  AfterPerformTranslation(at, j, performTranslation(v, j.content, j.model, env), t)

----------------------------------------------------------------------------
(* The inputs and the answers of the environment *)

Fenced(tag, body) == Fence \o tag \o <<"\n">> \o body \o <<"\n">> \o Fence

\* What the user types: pasted text, or a URL (one token).
TextValues ==
  {<<"a">>, <<"a", "\n", "a", "\n", "\n", "a">>, <<"<div>", " ", "</div>">>,
   <<"<", " ", ">">>}

UrlValues == {<<"http://site/page">>}

Statuses == {200, 403, 404, 500, 501}

StatusTexts == {<<>>, <<"Status Text">>}

Pages == {<<"<p>", "a", "</p>">>, <<"<h4>", "a", "</h4>", "<p>", " ", "</p>">>,
          <<"<p>", "&nbsp;", "</p>">>}

Relays ==
  {[kind |-> "failed", status |-> 0, statusText |-> <<>>, markup |-> <<>>]}
    \cup {[kind |-> "response", status |-> 200, statusText |-> <<>>, markup |-> m] :
            m \in Pages}
    \cup {[kind |-> "response", status |-> c, statusText |-> x, markup |-> <<>>] :
            c \in Statuses \ {200}, x \in StatusTexts}

Envs(texts) ==
  [transport : Transports,
   outcome : {Throws(m) : m \in ApiErrors} \cup {Returns(x) : x \in texts}]

DetectTexts == {KO, <<"K", "O", "\n">>, EN, <<"1">>}

AnalysisTexts ==
  {<<"{A}">>, Fenced(<<"o", "n">>, <<"{A}">>), <<"{A-title}">>, <<"null">>, <<"a">>}

TranslatedAnalysisTexts ==
  {<<"{T}">>, Fenced(<<>>, <<"{T}">>), <<"{T+title}">>, <<"{T-summary}">>, <<"null">>,
   <<"a">>}

TranslatedContentTexts == {<<"<p>", "k", "</p>">>, Fenced(<<>>, <<"<p>", "k", "</p>">>)}

----------------------------------------------------------------------------
(* ResultDisplay: src/src/components/ProgressIndicator.tsx lines 86-470.   *)
(* App renders it while uiState is COMPLETE with a result; display is its  *)
(* component state, its call of enhanceReadability in flight, and the      *)
(* number of calls in flight that displays since unmounted started.  The   *)
(* popup window the handler writes to is not part of the state.            *)

MaxOrphans == 1

Tabs == {"original", "translation", "editable"}

NoDisplay ==
  [mounted |-> FALSE, activeTab |-> "translation", isEnhancing |-> FALSE,
   editableContent |-> <<>>, call |-> "none", orphans |-> 0]

\* createEditableHtml, lines 41-58: anchors are replaced by their children.
createEditableHtml(htmlString) == Without(htmlString, AnchorTokens \cup {"</a>"})

\* The first effect of a display mounted on a result: lines 95-102.
Mounted(result, orphans) ==
  [NoDisplay EXCEPT !.mounted = TRUE,
                    !.editableContent = createEditableHtml(result.outputs.fullTranslation),
                    !.orphans = orphans]

InFlight(d) == d.orphans + (IF d.call = "pending" THEN 1 ELSE 0)

\* part_003 lines 193-197: the display of the state st2 that follows st; a
\* display that goes away leaves its call in flight behind.
Render(d, st, st2) ==
  IF st2.uiState = "COMPLETE" /\ st2.currentResult # Null
  THEN IF d.mounted /\ st2.currentResult = st.currentResult THEN d
       ELSE Mounted(st2.currentResult[1], InFlight(d))
  ELSE [NoDisplay EXCEPT !.orphans = InFlight(d)]

\* handleEnhanceReadability up to its await: lines 150-250.  A blocked popup
\* ends the handler with isEnhancing false again.
Clicked(d, opened) ==
  IF ~opened THEN [d EXCEPT !.isEnhancing = FALSE]
  ELSE [d EXCEPT !.isEnhancing = TRUE, !.call = "pending"]

\* The handler setting the editable copy to what the enhancer returned.
SettledAndKept(d, r) ==
  [d EXCEPT !.isEnhancing = FALSE, !.call = "none",
            !.editableContent = IF r.ok THEN r.value ELSE d.editableContent]

\* Lines 250-347: the call has settled with r; the popup shows the content
\* or the error, and finally isEnhancing is false.
SettledDisplay(d, r) == [d EXCEPT !.isEnhancing = FALSE, !.call = "none"]

----------------------------------------------------------------------------
(* The state machine *)

NoProbe == [fn |-> "none"]

Init ==
  /\ state = initialState
  /\ model = "gemini-2.5-flash-lite"
  /\ variant \in Variants
  /\ pc = "idle"
  /\ job = NoJob
  /\ dispatched = <<>>
  /\ calls = {}
  /\ probe = NoProbe
  /\ display = NoDisplay

\* A step of the running job: its dispatches reach the reducer in order.
Take(step) ==
  /\ state' = Reduce(state, step.actions)
  /\ dispatched' = dispatched \o step.actions
  /\ pc' = step.pc
  /\ job' = step.job
  /\ calls' = calls \cup step.calls
  /\ display' = Render(display, state, Reduce(state, step.actions))
  /\ UNCHANGED <<model, variant, probe>>

\* The first step of a job: a new log of dispatches and calls; startedFrom
\* remembers the uiState the submission found.
Begin(step) ==
  /\ state' = Reduce(state, step.actions)
  /\ dispatched' = step.actions
  /\ pc' = step.pc
  /\ job' = [step.job EXCEPT !.startedFrom = state.uiState]
  /\ calls' = step.calls
  /\ display' = Render(display, state, Reduce(state, step.actions))
  /\ UNCHANGED <<model, variant, probe>>

\* handleSubmit without its test of isProcessing.
SubmitAnytime ==
  \E value \in TextValues \cup UrlValues :
    \E mode \in Modes :
      /\ value # <<>>
      /\ trim(value) # <<>>
      /\ (mode = "url") = (value \in UrlValues)
      /\ \E jobStart \in 0..MaxTime :
           \E step \in {SubmitStep(value, mode, model, jobStart)} : Begin(step)

\* handleSubmit of UrlInputForm (part_000 lines 37-42) calling onSubmit; the
\* form is submitted with its button, which is disabled while
\* inputValue.trim() is empty (line 117).
Submit ==
  \E value \in TextValues \cup UrlValues :
    \E mode \in Modes :
      /\ value # <<>>
      /\ trim(value) # <<>>
      /\ state.uiState # "PROCESSING"
      /\ (mode = "url") = (value \in UrlValues)
      /\ \E jobStart \in 0..MaxTime :
           \E step \in {SubmitStep(value, mode, model, jobStart)} : Begin(step)

FetchSettles ==
  /\ pc = "extracting"
  /\ \E relay \in Relays :
       \E step \in {FetchStep(variant, job, relay)} : Take(step)

DetectSettles ==
  /\ pc = "detecting"
  /\ \E env \in Envs(DetectTexts) :
       \E step \in {DetectStep(variant, job, env)} : Take(step)

AnalysisSettles ==
  /\ pc = "analyzing"
  /\ \E env \in Envs(AnalysisTexts) :
       \E jobEnd \in job.jobStart..MaxTime :
         \E step \in {AnalysisStep(variant, job, env, jobEnd)} : Take(step)

TranslateAnalysisSettles ==
  /\ job.translatedAnalysis = Pending
  /\ \E env \in Envs(TranslatedAnalysisTexts) :
       \E jobEnd \in job.jobStart..MaxTime :
         \E step \in {TranslateAnalysisStep(variant, pc, job, env, jobEnd)} : Take(step)

PerformTranslationSettles ==
  /\ job.translatedContent = Pending
  /\ \E env \in Envs(TranslatedContentTexts) :
       \E jobEnd \in job.jobStart..MaxTime :
         \E step \in {PerformTranslationStep(variant, pc, job, env, jobEnd)} : Take(step)

\* resetState (part_003 lines 148-150), from the form's reset button (disabled
\* while processing) or the error panel's button.  The record of the last
\* job ends here: a call of it that is still in flight settles into nothing.
Reset ==
  /\ state.uiState # "PROCESSING"
  /\ state' = jobReducer(state, RESET)
  /\ job' = NoJob
  /\ dispatched' = <<>>
  /\ calls' = {}
  /\ display' = Render(display, state, jobReducer(state, RESET))
  /\ UNCHANGED <<model, variant, pc, probe>>

\* onModelChange: the model buttons are disabled while processing.
SetModel ==
  /\ state.uiState # "PROCESSING"
  /\ \E m \in AiModels \ {model} : model' = m
  /\ UNCHANGED <<state, variant, pc, job, dispatched, calls, probe, display>>

\* TabButton: the tab shown.
SelectTab ==
  /\ display.mounted
  /\ \E tab \in Tabs \ {display.activeTab} : display' = [display EXCEPT !.activeTab = tab]
  /\ UNCHANGED <<state, model, variant, pc, job, dispatched, calls, probe>>

EditedContents == {<<"<p>", "e", "</p>">>}

\* onInput of the editable div: line 461.
EditContent ==
  /\ display.mounted
  /\ display.activeTab = "editable"
  /\ \E html \in EditedContents \ {display.editableContent} :
       display' = [display EXCEPT !.editableContent = html]
  /\ UNCHANGED <<state, model, variant, pc, job, dispatched, calls, probe>>

\* The button of lines 415-431: shown on the editable tab, disabled while
\* isEnhancing.
EnhanceClick ==
  /\ display.mounted
  /\ display.activeTab = "editable"
  /\ ~display.isEnhancing
  /\ display.orphans < MaxOrphans
  /\ \E opened \in BOOLEAN : display' = Clicked(display, opened)
  /\ UNCHANGED <<state, model, variant, pc, job, dispatched, calls, probe>>

EnhanceAnswers == {<<"<p>", "k", "</p>">>, <<"a">>}

\* The call was given the editable copy of the time of the click: the copy
\* of now or an earlier one.
EnhanceSettles ==
  /\ display.call = "pending"
  /\ \E contentHtml \in
         {display.editableContent,
          createEditableHtml(state.currentResult[1].outputs.fullTranslation)}
           \cup EditedContents :
       \E env \in Envs(EnhanceAnswers) :
         display' = SettledDisplay(display, enhanceReadability(variant, contentHtml, env))
  /\ UNCHANGED <<state, model, variant, pc, job, dispatched, calls, probe>>

\* A call of a display since unmounted settles: its setIsEnhancing reaches
\* no mounted display.
OrphanSettles ==
  /\ display.orphans > 0
  /\ display' = [display EXCEPT !.orphans = display.orphans - 1]
  /\ UNCHANGED <<state, model, variant, pc, job, dispatched, calls, probe>>

Next ==
  \/ Submit
  \/ FetchSettles
  \/ DetectSettles
  \/ AnalysisSettles
  \/ TranslateAnalysisSettles
  \/ PerformTranslationSettles
  \/ Reset
  \/ SetModel

Spec == Init /\ [][Next]_vars

\* The job pipeline together with the result display.
UiNext ==
  \/ Next
  \/ SelectTab
  \/ EditContent
  \/ EnhanceClick
  \/ EnhanceSettles
  \/ OrphanSettles

UiSpec == Init /\ [][UiNext]_vars

\* Every network call of a running job eventually returns or throws.
LiveSpec ==
  /\ Spec
  /\ WF_vars(FetchSettles)
  /\ WF_vars(DetectSettles)
  /\ WF_vars(AnalysisSettles)
  /\ WF_vars(TranslateAnalysisSettles)
  /\ WF_vars(PerformTranslationSettles)

----------------------------------------------------------------------------
(* detectLanguage on its own: one call on a content, with every short      *)
(* answer of the model; probe keeps the call and what it returned.         *)

ResponseChars == {"k", "o", "K", "1", " "}

SeqsUpTo(S, n) == UNION {[1..k -> S] : k \in 0..n}

ProbeContents ==
  {<<"<p>", "a", "</p>">>, <<"<p>", " ", "</p>">>, <<"<p>", "<", " ", ">", "</p>">>,
   <<"<p>", "&nbsp;", "</p>">>}

DetectLanguageCall ==
  \E contentHtml \in ProbeContents :
    \E env \in Envs(SeqsUpTo(ResponseChars, MaxRespLen)) :
      /\ probe = NoProbe
      /\ probe' = [fn |-> "detectLanguage", contentHtml |-> contentHtml, env |-> env,
                   result |-> detectLanguage(variant, contentHtml, env)]
      /\ UNCHANGED <<state, model, variant, pc, job, dispatched, calls, display>>

DetectSpec == Init /\ [][DetectLanguageCall]_vars

----------------------------------------------------------------------------
(* The proxy handler on its own: one request, with what the selected       *)
(* operation's model call does; probe keeps the request and the response.  *)

Methods == {"POST", "GET", "PUT"}

\* The payload callApiProxy sends with an action (part_002 lines 108-126).
PayloadOf(action) ==
  CASE action = "translateAnalysis" ->
         [analysis |-> JsonOf("{A}"), model |-> "gemini-2.5-flash"]
    [] action \in {"detectLanguage", "enhanceReadability"} ->
         [contentHtml |-> <<"<p>", "a", "</p>">>]
    [] OTHER -> [contentHtml |-> <<"<p>", "a", "</p>">>, model |-> "gemini-2.5-flash"]

Bodies ==
  {Null} \cup
    {Some([action |-> a, payload |-> p]) :
       a \in ProxyActions \cup {"unknown"}, p \in {Null}} \cup
    {Some([action |-> a, payload |-> Some(PayloadOf(a))]) :
       a \in ProxyActions \cup {"unknown"}}

Requests == [method : Methods, body : Bodies]

HandlerTexts ==
  {<<"{A}">>, <<"{T}">>, KO, <<"<p>", "k", "</p>">>, Fenced(<<>>, <<"<p>", "k", "</p>">>),
   <<"a">>, <<>>}

HandlerOutcomes == {Throws(m) : m \in ApiErrors} \cup {Returns(x) : x \in HandlerTexts}

HandlerCall ==
  \E req \in Requests :
    \E outcome \in HandlerOutcomes :
      /\ probe = NoProbe
      /\ probe' = [fn |-> "handler", req |-> req, outcome |-> outcome,
                   response |-> handler(req, outcome)]
      /\ UNCHANGED <<state, model, variant, pc, job, dispatched, calls, display>>

HandlerSpec == Init /\ [][HandlerCall]_vars

----------------------------------------------------------------------------
(* fetchUrlContent on its own: one call on a URL whose page the relay      *)
(* delivers; probe keeps the call and what it returned.                    *)

MaxPageLen == 2

\* The elements of a page as the readability stage hands it on.
Elements ==
  {<<"a">>, <<"<p>", "</p>">>, <<"<p class>", "a", "</p>">>, <<"<p onclick>", "a", "</p>">>,
   <<"<div>", "a", "</div>">>, <<"<h4>", "a", "</h4>">>, <<"<a>", "a", "</a>">>,
   <<"<a href=abs>", "a", "</a>">>, <<"<a href=rel>", "a", "</a>">>,
   <<"<a href=bad>", "a", "</a>">>, <<"<a href=>", "a", "</a>">>}

RECURSIVE Concat(_)
Concat(ss) == IF ss = <<>> THEN <<>> ELSE Head(ss) \o Concat(Tail(ss))

FetchPages == {Concat(es) : es \in SeqsUpTo(Elements, MaxPageLen)}

\* The URL typed: with a scheme, or without one.
FetchUrls == {<<"http://site/page">>, <<"site/page">>}

Delivered(markup) ==
  [kind |-> "response", status |-> 200, statusText |-> <<>>, markup |-> markup]

FetchCall ==
  \E url \in FetchUrls :
    \E markup \in FetchPages :
      /\ probe = NoProbe
      /\ probe' = [fn |-> "fetchUrlContent", url |-> url, markup |-> markup,
                   result |-> fetchUrlContent(variant, url, Delivered(markup))]
      /\ UNCHANGED <<state, model, variant, pc, job, dispatched, calls, display>>

FetchSpec == Init /\ [][FetchCall]_vars

----------------------------------------------------------------------------
(* The normalizer of pasted text on its own: one text of letters and       *)
(* newlines that the form lets through; probe keeps it and its content.    *)

MaxTextLen == 5

TextChars == {"a", "b", "\n"}

ProbeTexts == {s \in SeqsUpTo(TextChars, MaxTextLen) : trim(s) # <<>>}

NormalizeCall ==
  \E value \in ProbeTexts :
    /\ probe = NoProbe
    /\ probe' = [fn |-> "NormalizeText", value |-> value, result |-> NormalizeText(value)]
    /\ UNCHANGED <<state, model, variant, pc, job, dispatched, calls, display>>

NormalizeSpec == Init /\ [][NormalizeCall]_vars

----------------------------------------------------------------------------
(* stripMarkdown on its own: a text in a code fence, or in two, is         *)
(* stripped once and then again; probe keeps the text and both results.    *)

MaxBodyLen == 3

BodyChars == {"a", " ", "\n", "BQ"}

FenceTags == {<<>>, <<"o", "n">>}

\* x in depth fences, each with the tag.
Wrapped(tag, x, depth) == IF depth = 1 THEN Fenced(tag, x) ELSE Fenced(tag, Fenced(tag, x))

StripMarkdownCall ==
  \E x \in SeqsUpTo(BodyChars, MaxBodyLen) :
    \E tag \in FenceTags :
      \E depth \in {1, 2} :
        /\ probe = NoProbe
        /\ probe' = [fn |-> "stripMarkdown", x |-> x, tag |-> tag, depth |-> depth,
                     text |-> Wrapped(tag, x, depth),
                     result |-> stripMarkdown(Wrapped(tag, x, depth)),
                     again |-> stripMarkdown(stripMarkdown(Wrapped(tag, x, depth)))]
        /\ UNCHANGED <<state, model, variant, pc, job, dispatched, calls, display>>

FenceSpec == Init /\ [][StripMarkdownCall]_vars

----------------------------------------------------------------------------
(* enhanceReadability on its own: one call, with every short answer of the *)
(* model, bare and in a code fence; probe keeps the call and its result.   *)

MaxHtmlLen == 3

HtmlChars == {"<p>", "a", " ", "<"}

EnhanceTexts ==
  SeqsUpTo(HtmlChars, MaxHtmlLen)
    \cup {Fenced(<<>>, x) : x \in SeqsUpTo(HtmlChars, MaxHtmlLen)}

EnhanceCall ==
  \E env \in Envs(EnhanceTexts) :
    /\ probe = NoProbe
    /\ probe' = [fn |-> "enhanceReadability", env |-> env,
                 result |-> enhanceReadability(variant, <<"<p>", "k", "</p>">>, env)]
    /\ UNCHANGED <<state, model, variant, pc, job, dispatched, calls, display>>

EnhanceSpec == Init /\ [][EnhanceCall]_vars

----------------------------------------------------------------------------
(* The two services side by side: one call of one operation, answered the  *)
(* same way to the direct service (part_001) and to the proxied one         *)
(* (part_002 through api/proxy.ts), the request to /api/proxy delivered.    *)
(* probe keeps the call and both results.                                   *)

Answers(texts) == {Throws(m) : m \in ApiErrors} \cup {Returns(x) : x \in texts}

ServiceCalls ==
  {[fn |-> "fetchUrlContent", input |-> url, answer |-> relay] :
     url \in FetchUrls, relay \in Relays}
    \cup {[fn |-> "detectLanguage", input |-> c, answer |-> a] :
            c \in ProbeContents, a \in Answers(DetectTexts)}
    \cup {[fn |-> "performAnalysis", input |-> <<"<p>", "a", "</p>">>, answer |-> a] :
            a \in Answers(AnalysisTexts)}
    \cup {[fn |-> "translateAnalysis", input |-> JSONparse(<<"{A}">>).value, answer |-> a] :
            a \in Answers(TranslatedAnalysisTexts)}
    \cup {[fn |-> "performTranslation", input |-> <<"<p>", "a", "</p>">>, answer |-> a] :
            a \in Answers(TranslatedContentTexts)}
    \cup {[fn |-> "enhanceReadability", input |-> <<"<p>", "k", "</p>">>, answer |-> a] :
            a \in Answers(EnhanceTexts)}

ServiceResult(v, call, aiModel) ==
  LET env == [transport |-> "delivered", outcome |-> call.answer] IN
  CASE call.fn = "fetchUrlContent" -> fetchUrlContent(v, call.input, call.answer)
    [] call.fn = "detectLanguage" -> detectLanguage(v, call.input, env)
    [] call.fn = "performAnalysis" -> performAnalysis(v, call.input, aiModel, env)
    [] call.fn = "translateAnalysis" -> translateAnalysis(v, call.input, aiModel, env)
    [] call.fn = "performTranslation" -> performTranslation(v, call.input, aiModel, env)
    [] call.fn = "enhanceReadability" -> enhanceReadability(v, call.input, env)

CallBothServices ==
  \E call \in ServiceCalls :
    /\ probe = NoProbe
    /\ probe' = [fn |-> "both", call |-> call,
                 direct |-> ServiceResult("direct", call, model),
                 proxied |-> ServiceResult("proxied", call, model)]
    /\ UNCHANGED <<state, model, variant, pc, job, dispatched, calls, display>>

BothSpec == Init /\ [][CallBothServices]_vars

----------------------------------------------------------------------------
(* useHotkeys: src/hooks/useHotkeys.ts, with the map of App (part_003      *)
(* lines 157-159).  probe keeps whether the listener is registered, the    *)
(* last keydown event and how often a handler was invoked for it.          *)

Keys == {"d", "D", "e"}

KeyEvents ==
  [key : Keys, ctrlKey : BOOLEAN, metaKey : BOOLEAN, altKey : BOOLEAN, shiftKey : BOOLEAN]

\* event.key.toLowerCase()
LowerKey(key) == IF key = "D" THEN "d" ELSE key

\* Line 11: the modifiers pressed, in this order, and the key.
HotkeyOf(event) ==
  (IF event.ctrlKey THEN <<"ctrl+">> ELSE <<>>)
    \o (IF event.metaKey THEN <<"meta+">> ELSE <<>>)
    \o (IF event.altKey THEN <<"alt+">> ELSE <<>>)
    \o (IF event.shiftKey THEN <<"shift+">> ELSE <<>>)
    \o <<LowerKey(event.key)>>

\* String.prototype.replace with a string pattern: the first occurrence.
RECURSIVE ReplaceFirst(_, _, _)
ReplaceFirst(s, old, new) ==
  IF s = <<>> THEN <<>>
  ELSE IF Head(s) = old THEN <<new>> \o Tail(s)
  ELSE <<Head(s)>> \o ReplaceFirst(Tail(s), old, new)

NormalizedHotkey(event) == ReplaceFirst(HotkeyOf(event), "meta+", "ctrl+")

\* The entries of the map App passes: 'ctrl+d'.
HotkeyMap == {<<"ctrl+", "d">>}

\* handleKeyDown: the number of handlers it invokes for the event.
handleKeyDown(event) == IF NormalizedHotkey(event) \in HotkeyMap THEN 1 ELSE 0

NoEvent == [key |-> "none", ctrlKey |-> FALSE, metaKey |-> FALSE, altKey |-> FALSE,
            shiftKey |-> FALSE]

\* The effect: window.addEventListener('keydown', handleKeyDown).
HotkeysMount ==
  /\ probe = NoProbe
  /\ probe' = [fn |-> "useHotkeys", listening |-> TRUE, event |-> NoEvent, invoked |-> 0]
  /\ UNCHANGED <<state, model, variant, pc, job, dispatched, calls, display>>

\* A keydown event on the window reaches the listener while it is registered.
KeyDown ==
  /\ probe.fn = "useHotkeys"
  /\ \E event \in KeyEvents :
       probe' = [probe EXCEPT !.event = event,
                              !.invoked = IF probe.listening THEN handleKeyDown(event)
                                          ELSE 0]
  /\ UNCHANGED <<state, model, variant, pc, job, dispatched, calls, display>>

\* The cleanup of the effect: window.removeEventListener.
HotkeysCleanup ==
  /\ probe.fn = "useHotkeys"
  /\ probe.listening
  /\ probe' = [probe EXCEPT !.listening = FALSE, !.event = NoEvent, !.invoked = 0]
  /\ UNCHANGED <<state, model, variant, pc, job, dispatched, calls, display>>

HotkeysNext == HotkeysMount \/ KeyDown \/ HotkeysCleanup

HotkeysSpec == Init /\ [][HotkeysNext]_vars

----------------------------------------------------------------------------
(* The properties *)

\* The jobStatus an action leaves in the state.
StatusOf(action) ==
  CASE action.type = "JOB_START" -> "QUEUED"
    [] action.type = "JOB_PROGRESS" -> action.status
    [] action.type = "JOB_SUCCESS" -> "COMPLETED"
    [] action.type = "JOB_ERROR" -> "FAILED"
    [] OTHER -> "NONE"

StatusOrder ==
  <<"QUEUED", "EXTRACTING", "DETECTING_LANGUAGE", "ANALYZING", "TRANSLATING", "COMPLETED">>

InOrder(s) == \E i \in DOMAIN StatusOrder : StatusOrder[i] = s

Rank(s) == CHOOSE i \in DOMAIN StatusOrder : StatusOrder[i] = s

StrictlyIncreasing(log) ==
  /\ \A i \in DOMAIN log : InOrder(StatusOf(log[i]))
  /\ \A i, k \in DOMAIN log : i < k => Rank(StatusOf(log[i])) < Rank(StatusOf(log[k]))

Entered(log, status) == \E i \in DOMAIN log : StatusOf(log[i]) = status

TerminalCount(log) ==
  Cardinality({i \in DOMAIN log : log[i].type \in {"JOB_SUCCESS", "JOB_ERROR"}})

\* C1: for every job that completes, the statuses its dispatches produce are
\* a strictly increasing subsequence of QUEUED, EXTRACTING,
\* DETECTING_LANGUAGE, ANALYZING, TRANSLATING, COMPLETED, and TRANSLATING is
\* among them exactly when detectLanguage returned something other than 'ko'.
C1_StatusesIncrease ==
  state.jobStatus = Some("COMPLETED") =>
    /\ StrictlyIncreasing(dispatched)
    /\ Entered(dispatched, "TRANSLATING") <=> (job.language # KO)

C1_Witness ==
  /\ state.jobStatus = Some("COMPLETED")
  /\ job.mode = "url"
  /\ job.language # KO
  /\ Len(dispatched) = 6

\* C2: once a job has failed it dispatches nothing more: every step from a
\* FAILED state leaves the state and the log of dispatches as they are,
\* unless it is RESET (the initial state, an empty log) or the start of a
\* new job.
C2_FailedIsAbsorbing ==
  [][state.jobStatus = Some("FAILED") =>
       IF pc' # "idle"
       THEN /\ dispatched'[1].type = "JOB_START"
            /\ Len(dispatched') = 2
            /\ state'.uiState = "PROCESSING"
       ELSE \/ state' = state /\ dispatched' = dispatched
            \/ state' = initialState /\ dispatched' = <<>>]_vars

C2_Witness ==
  /\ state.jobStatus = Some("FAILED")
  /\ job.translatedAnalysis = "rejected"
  /\ job.translatedContent = "unobserved"
  /\ "model:performTranslation" \in calls

\* C3: when every network call eventually returns or throws, a job that is
\* processing ends COMPLETE or ERROR, and no job dispatches more than one of
\* JOB_SUCCESS and JOB_ERROR.
C3_JobTerminates ==
  /\ (state.uiState = "PROCESSING") ~> (state.uiState \in {"COMPLETE", "ERROR"})
  /\ [](TerminalCount(dispatched) <= 1)

C3_Witness ==
  /\ state.uiState = "ERROR"
  /\ pc = "idle"
  /\ job.translatedAnalysis = "rejected"
  /\ job.translatedContent = Pending
  /\ TerminalCount(dispatched) = 1

TranslationCalls ==
  {"translateAnalysis", "performTranslation", "model:translateAnalysis",
   "model:performTranslation"}

ResultKeepsContent(result) ==
  /\ result.originalContent = job.content
  /\ job.mode = "text" => job.content = NormalizeText(job.value)
  /\ IF job.language = KO
     THEN /\ result.outputs.fullTranslation = job.content
          /\ calls \cap TranslationCalls = {}
     ELSE /\ job.translatedContent = "fulfilled"
          /\ result.outputs.fullTranslation = job.contentValue[1].value

\* C4: the result of a completed job has originalContent equal to the
\* normalized content; its fullTranslation is that content, with no
\* translation call started, when the language is 'ko', and is the value
\* performTranslation returned otherwise.
C4_FullTranslation ==
  state.currentResult # Null => ResultKeepsContent(state.currentResult[1])

C4_Witness ==
  /\ state.currentResult # Null
  /\ job.language # KO
  /\ state.currentResult[1].outputs.fullTranslation # state.currentResult[1].originalContent

RejectionMessages(j) ==
  (IF j.translatedAnalysis = "rejected" THEN {j.analysisValue[1].error} ELSE {})
    \cup (IF j.translatedContent = "rejected" THEN {j.contentValue[1].error} ELSE {})

ResultIsTranslated(result, analysis, content) ==
  /\ result.title = Get(analysis, "title")
  /\ result.outputs.oneLineSummary = Get(analysis, "oneLineSummary")
  /\ result.outputs.keyPoints = Get(analysis, "keyPoints")
  /\ result.outputs.keyPlayers = Get(analysis, "keyPlayers")
  /\ result.outputs.keywords = Get(analysis, "keywords")
  /\ result.outputs.fullTranslation = content

FailedWith(log, messages) ==
  /\ log # <<>>
  /\ log[Len(log)].type = "JOB_ERROR"
  /\ log[Len(log)].error \in messages
  /\ \A i \in DOMAIN log : log[i].type # "JOB_SUCCESS"

\* C5: for a language other than 'ko', translateAnalysis and
\* performTranslation are both started when the job enters TRANSLATING; the
\* job is COMPLETED only with both fulfilled, its analysis fields those
\* translateAnalysis returned and its fullTranslation what performTranslation
\* returned; if either is rejected the job ends FAILED, never COMPLETED, with
\* the message of a rejected call.
C5_BothTranslations ==
  /\ pc = "translating" =>
       /\ {"translateAnalysis", "performTranslation"} \subseteq calls
       /\ state.jobStatus = Some("TRANSLATING")
       /\ state.uiState = "PROCESSING"
  /\ (state.jobStatus = Some("COMPLETED") /\ job.language # KO) =>
       /\ job.translatedAnalysis = "fulfilled"
       /\ job.translatedContent = "fulfilled"
       /\ ResultIsTranslated(state.currentResult[1], job.analysisValue[1].value,
                             job.contentValue[1].value)
  /\ RejectionMessages(job) # {} => FailedWith(dispatched, RejectionMessages(job))

C5_Witness ==
  /\ pc = "translating"
  /\ job.translatedContent = "fulfilled"
  /\ job.translatedAnalysis = Pending

\* The model answered the detection request with a text.
ModelAnswered(p) ==
  /\ p.fn = "detectLanguage"
  /\ p.result.ok
  /\ p.result.called
  /\ p.env.outcome.kind = "text"

\* C6, as stated: detectLanguage returns 'en' for every response that is not
\* exactly two lowercase letters, and the response itself when it is.
C6_AsStated ==
  ModelAnswered(probe) =>
    probe.result.value =
      IF IsTwoLetterCode(probe.env.outcome.text) THEN probe.env.outcome.text ELSE EN

\* C6, amended: detectLanguage returns 'en' for every response that, trimmed
\* and in lower case, is not exactly two letters a-z, and returns the
\* trimmed, lower-case response when it is.
C6_TrimmedLowerCase ==
  ModelAnswered(probe) =>
    probe.result.value =
      IF IsTwoLetterCode(toLowerCase(trim(probe.env.outcome.text)))
      THEN toLowerCase(trim(probe.env.outcome.text))
      ELSE EN

C6_Witness ==
  /\ ModelAnswered(probe)
  /\ probe.env.outcome.text = <<"K", "o", " ">>
  /\ probe.result.value = KO

\* C7: no job fails in the detection step: a JOB_ERROR never follows
\* DETECTING_LANGUAGE directly, in the direct and in the proxied service.
C7_DetectionNeverFails ==
  (Len(dispatched) >= 2 /\ dispatched[Len(dispatched)].type = "JOB_ERROR") =>
    StatusOf(dispatched[Len(dispatched) - 1]) # "DETECTING_LANGUAGE"

\* Markup without text: only tags and white space.
BlankMarkup(html) ==
  /\ html # <<>>
  /\ \A i \in DOMAIN html : html[i] \in TagTokens \/ IsWs(html[i])

C9_TitleIsKept ==
  (job.analysisValue # Null /\ job.analysisValue[1].ok) =>
    Get(job.analysisValue[1].value, "title") = Get(job.rawAnalysisResult[1], "title")

CleanSlate(value, startTime) ==
  [uiState |-> "PROCESSING", jobStatus |-> Some("QUEUED"), currentResult |-> Null,
   error |-> Null, inputValue |-> value, jobStartTime |-> Some(startTime)]

\* C10: from every state JOB_START gives jobStatus QUEUED, uiState
\* PROCESSING, no result and no error, with the submission's inputValue and
\* jobStartTime; a job in progress shows neither an earlier result nor an
\* earlier error, and a failed job has no result.
C10_JobStartIsCleanSlate ==
  /\ \A value \in TextValues \cup UrlValues :
       \A startTime \in 0..MaxTime :
         jobReducer(state, JOB_START(value, startTime)) = CleanSlate(value, startTime)
  /\ state.uiState = "PROCESSING" =>
       /\ state.currentResult = Null
       /\ state.error = Null
       /\ state.inputValue = job.value
       /\ state.jobStartTime = Some(job.jobStart)
  /\ state.jobStatus = Some("FAILED") => state.currentResult = Null

C10_Witness ==
  /\ state.jobStatus = Some("FAILED")
  /\ job.startedFrom = "COMPLETE"
  /\ state.currentResult = Null

\* C11: after a job has failed no job starts before a RESET: no step leads
\* from the FAILED state to PROCESSING.
C11_ResetRequired ==
  [][state.jobStatus = Some("FAILED") => state'.uiState # "PROCESSING"]_vars

\* The number of JOB_START actions in a log of dispatches.
JobStarts(log) == Cardinality({i \in DOMAIN log : log[i].type = "JOB_START"})

\* C12: while a job is processing the model tier stays, the job's log of
\* dispatches only grows, by actions other than JOB_START, and the job's
\* submission stays; no log holds two JOB_START actions.
C12_SingleJobInFlight ==
  /\ [][state.uiState = "PROCESSING" =>
          /\ model' = model
          /\ Len(dispatched') >= Len(dispatched)
          /\ SubSeq(dispatched', 1, Len(dispatched)) = dispatched
          /\ \A i \in (Len(dispatched) + 1)..Len(dispatched') :
               dispatched'[i].type \notin {"JOB_START", "RESET"}
          /\ job'.value = job.value
          /\ job'.jobStart = job.jobStart
          /\ job'.model = job.model
          /\ state'.inputValue = state.inputValue]_vars
  /\ [](JobStarts(dispatched) <= 1)
  /\ []((state.uiState = "PROCESSING") <=> (pc # "idle"))

C12_Witness ==
  /\ state.uiState = "PROCESSING"
  /\ job.startedFrom = "ERROR"
  /\ Len(dispatched) >= 3

\* The five actions of the proxy boundary.
KnownActions ==
  {"detectLanguage", "performAnalysis", "translateAnalysis", "performTranslation",
   "enhanceReadability"}

\* The request has a body with an action and a payload.
WellFormed(req) == req.body # Null /\ req.body[1].payload # Null

\* C13: the handler answers every request: 405 to a method other than POST,
\* 400 to a POST with an unknown action, 200 with the result when the
\* selected operation returns, 500 with an error when it throws, and 500
\* with an error when the body or the payload is missing.
C13_EveryRequestAnswered ==
  probe.fn = "handler" =>
    LET req == probe.req
        r == probe.response
    IN /\ r.sent
       /\ req.method # "POST" => r.status = 405
       /\ (req.method = "POST" /\ req.body # Null
             /\ req.body[1].action \notin KnownActions) => r.status = 400
       /\ (req.method = "POST" /\ WellFormed(req)
             /\ req.body[1].action \in KnownActions) =>
            LET op == ProxyOperation(req.body[1].action, req.body[1].payload[1],
                                     probe.outcome)
            IN IF op.ok
               THEN r.status = 200 /\ r.result = Some(op.value)
               ELSE r.status = 500 /\ r.error # <<>>
       /\ (req.method = "POST" /\ ~WellFormed(req)
             /\ (req.body # Null => req.body[1].action \in KnownActions)) =>
            r.status = 500 /\ r.error # <<>>

\* The guidance a status is to get: one text for 403, one for 404, one for
\* the 5xx statuses.
GuidanceFor(status) ==
  CASE status = 403 -> " The target server may have refused access."
    [] status = 404 -> " The page was not found. Check the URL."
    [] status >= 500 /\ status <= 599 ->
         " The target server or the proxy service has a problem."
    [] OTHER -> "none"

Contains(message, part) == \E i \in DOMAIN message : message[i] = part

\* C14: when the relay answers with a status outside 200..299 the job is
\* FAILED with only fetchUrlContent called, and its message names the
\* status and holds the guidance of 403, of 404 or of the 5xx statuses.
C14_StatusGuidance ==
  (job.relayStatus # Null /\ ~(job.relayStatus[1] >= 200 /\ job.relayStatus[1] <= 299)) =>
    /\ state.jobStatus = Some("FAILED")
    /\ pc = "idle"
    /\ calls = {"fetchUrlContent"}
    /\ state.error # Null
    /\ Contains(state.error[1], ToString(job.relayStatus[1]))
    /\ GuidanceFor(job.relayStatus[1]) # "none" =>
         Contains(state.error[1], GuidanceFor(job.relayStatus[1]))

\* The fragment a probe of fetchUrlContent returned.
Fetched == probe.fn = "fetchUrlContent" /\ probe.result.ok

\* C15: in every fragment fetchUrlContent returns, the name of every tag is
\* in the ALLOWED_TAGS of the service and every tag has no attribute but
\* href.
C15_OnlyAllowedMarkup ==
  Fetched =>
    \A i \in DOMAIN probe.result.value :
      probe.result.value[i] \in TagTokens =>
        /\ TagName(probe.result.value[i]) \in AllowedTags(variant)
        /\ TagAttrs(probe.result.value[i]) \subseteq {"href"}

\* The number of anchors in a fragment.
Anchors(s) == Cardinality({i \in DOMAIN s : s[i] \in AnchorTokens})

\* C16: in every fragment fetchUrlContent returns, every anchor has an
\* absolute href or none at all, and the fragment has as many anchors as the
\* page had.
C16_AnchorsAbsoluteOrDelinked ==
  Fetched =>
    /\ \A i \in DOMAIN probe.result.value :
         probe.result.value[i] \in AnchorTokens =>
           HrefKind(probe.result.value[i]) \in {"absolute", "none"}
    /\ Anchors(probe.result.value) = Anchors(probe.markup)

\* A block of a text starts at i: a character other than a newline, with
\* only newlines before it or right after a blank line.
BlockStart(s, i) ==
  /\ s[i] # "\n"
  /\ \/ \A k \in 1..(i - 1) : s[k] = "\n"
     \/ i >= 3 /\ s[i - 1] = "\n" /\ s[i - 2] = "\n"

Blocks(s) == Cardinality({i \in DOMAIN s : BlockStart(s, i)})

\* A newline with no newline next to it.
SingleNewline(s, i) ==
  /\ s[i] = "\n"
  /\ i > 1 => s[i - 1] # "\n"
  /\ i < Len(s) => s[i + 1] # "\n"

Count(s, tok) == Cardinality({i \in DOMAIN s : s[i] = tok})

\* C17: the content of a text of N blocks has N opening and N closing
\* paragraph tags, one <br> for every single newline, no newline, and
\* between the tags the characters of the text's lines in their order.
C17_OneWrapperPerBlock ==
  probe.fn = "NormalizeText" =>
    /\ Count(probe.result, "<p>") = Blocks(probe.value)
    /\ Count(probe.result, "</p>") = Blocks(probe.value)
    /\ Count(probe.result, "<br>") =
         Cardinality({i \in DOMAIN probe.value : SingleNewline(probe.value, i)})
    /\ Count(probe.result, "\n") = 0
    /\ Without(probe.result, {"<p>", "</p>", "<br>"}) = Without(probe.value, {"\n"})

\* The tags the normalizer of pasted text writes.
NormalizerTags == {"<p>", "</p>", "<br>"}

OnlyNormalizerTags(html) ==
  \A i \in DOMAIN html : html[i] \in TagTokens => html[i] \in NormalizerTags

\* C18: the content of a pasted text, and with it the originalContent of
\* the result and the fullTranslation of a Korean text, has no markup but
\* the p and br tags of the normalizer.
C18_TextHasNoOtherMarkup ==
  (job.mode = "text" /\ job.value # <<>>) =>
    /\ OnlyNormalizerTags(job.content)
    /\ state.currentResult # Null =>
         /\ OnlyNormalizerTags(state.currentResult[1].originalContent)
         /\ job.language = KO =>
              OnlyNormalizerTags(state.currentResult[1].outputs.fullTranslation)

\* C19: a job whose content has no text but white space ends FAILED with no
\* call of detectLanguage or performAnalysis, whether the content was
\* fetched or pasted.
C19_NoTextNoModelCall ==
  (job.value # <<>> /\ pc # "extracting" /\ trim(TextContent(job.content)) = <<>>) =>
    /\ calls \subseteq {"fetchUrlContent"}
    /\ pc = "idle" /\ state.jobStatus = Some("FAILED")

\* The text holds the fence delimiter.
HasFence(x) == \E i \in 1..(Len(x) - 2) : SubSeq(x, i, i + 2) = Fence

\* A probe of stripMarkdown on a text without the delimiter in one fence.
RoundTrip == probe.fn = "stripMarkdown" /\ probe.depth = 1 /\ ~HasFence(probe.x)

RequiredFields == {"title", "oneLineSummary", "keyPoints", "keyPlayers", "keywords"}

HasRequiredFields(v) == CanRead(v) /\ \A k \in RequiredFields : Truthy(Get(v, k))

\* C21: an analysis that performAnalysis returned has the five required
\* fields, in the direct and in the proxied service.
C21_AnalysisIsComplete ==
  job.rawAnalysisResult # Null => HasRequiredFields(job.rawAnalysisResult[1])

\* The string is not empty and its first character is '<'.
BeginsWithLt(s) == s # <<>> /\ (s[1] = "<" \/ s[1] \in TagTokens)

\* The model answered a call of enhanceReadability that reached it.
Enhanced ==
  /\ probe.fn = "enhanceReadability"
  /\ probe.env.outcome.kind = "text"
  /\ variant = "proxied" => probe.env.transport = "delivered"

\* C22: enhanceReadability fails when the response without its code fence
\* is empty or does not begin with '<', and returns that stripped response
\* otherwise; what it returns is never empty and begins with '<'.
C22_EnhancedIsHtml ==
  /\ Enhanced =>
       IF BeginsWithLt(stripMarkdown(probe.env.outcome.text))
       THEN probe.result.ok /\ probe.result.value = stripMarkdown(probe.env.outcome.text)
       ELSE ~probe.result.ok
  /\ (probe.fn = "enhanceReadability" /\ probe.result.ok) => BeginsWithLt(probe.result.value)

C22_Witness ==
  /\ Enhanced
  /\ variant = "proxied"
  /\ probe.env.outcome.text = Fenced(<<>>, <<" ", "<p>", "a">>)
  /\ probe.result.ok
  /\ probe.result.value = <<"<p>", "a">>

\* A step of the enhancer in a mounted display, or of a call left behind.
EnhancerStep ==
  \/ display.mounted /\ display'.mounted /\ display'.isEnhancing # display.isEnhancing
  \/ display.mounted /\ display'.mounted /\ display'.call # display.call
  \/ display'.orphans < display.orphans

\* C23: a step of the enhancer, at its start and when its call returns or
\* throws, leaves the job state, the log of dispatches and the editable
\* copy as they are; the display stays on a COMPLETE job with its result.
C23_EnhancerLeavesJobAlone ==
  /\ [][EnhancerStep =>
          /\ state' = state
          /\ dispatched' = dispatched
          /\ pc' = pc
          /\ display'.editableContent = display.editableContent]_vars
  /\ [](display.mounted =>
          /\ state.uiState = "COMPLETE"
          /\ state.jobStatus = Some("COMPLETED")
          /\ state.currentResult # Null)

C23_Witness ==
  /\ display.mounted
  /\ display.isEnhancing
  /\ display.call = "pending"
  /\ display.editableContent = <<"<p>", "e", "</p>">>
  /\ state.currentResult[1].outputs.fullTranslation # display.editableContent

\* C29: isEnhancing is true exactly while a call of enhanceReadability is
\* in flight, and at most one call is in flight.
C29_EnhancingWhileInFlight ==
  /\ display.isEnhancing <=> InFlight(display) > 0
  /\ InFlight(display) <= 1

\* The event is the key d with Ctrl or Cmd or both, and neither Alt nor
\* Shift.
CtrlOrCmdD(event) ==
  /\ event.key \in {"d", "D"}
  /\ event.ctrlKey \/ event.metaKey
  /\ ~event.altKey /\ ~event.shiftKey

\* C26: while the listener is registered, a keydown of d with Ctrl or Cmd or
\* both and no other modifier invokes the handler of 'ctrl+d' once; after
\* the cleanup no keydown invokes a handler.
C26_CmdIsCtrl ==
  probe.fn = "useHotkeys" =>
    /\ (probe.listening /\ CtrlOrCmdD(probe.event)) => probe.invoked = 1
    /\ ~probe.listening => probe.invoked = 0

\* A job was submitted and its log of dispatches is there.
Submitted == dispatched # <<>>

\* C24 as stated: the first progress status of every job is EXTRACTING.
C24_AsStated ==
  Submitted =>
    /\ dispatched[1].type = "JOB_START"
    /\ dispatched[2] = JOB_PROGRESS("EXTRACTING")

\* C24: the first dispatch of a job is JOB_START and the second publishes
\* EXTRACTING for a URL and DETECTING_LANGUAGE for pasted text; the
\* timestamp taken at submission is the startTime of JOB_START and the
\* jobStartTime of the state.
C24_FirstProgress ==
  Submitted =>
    /\ dispatched[1] = JOB_START(job.value, job.jobStart)
    /\ dispatched[2] = JOB_PROGRESS(IF job.mode = "url" THEN "EXTRACTING"
                                    ELSE "DETECTING_LANGUAGE")
    /\ state.jobStartTime = Some(job.jobStart)

C24_Witness ==
  /\ Submitted
  /\ job.mode = "text"
  /\ job.jobStart = 1
  /\ state.jobStatus = Some("DETECTING_LANGUAGE")
  /\ state.jobStartTime = Some(1)

\* C25: the result of translateAnalysis has exactly the five fields of an
\* AnalysisOutput, and its oneLineSummary, keyPoints, keyPlayers and
\* keywords are the translated ones.
C25_TranslationReplaces ==
  (job.analysisValue # Null /\ job.analysisValue[1].ok) =>
    /\ CanRead(job.analysisValue[1].value)
    /\ DOMAIN job.analysisValue[1].value.fields = RequiredFields
    /\ \A k \in RequiredFields \ {"title"} :
         job.analysisValue[1].value.fields[k] = FieldValue(k, 1)

\* C27: the fields of the reducer's state agree in every reachable state:
\* DEFAULT iff no jobStatus; PROCESSING iff a progress status; COMPLETE iff
\* COMPLETED iff a result; ERROR iff FAILED iff an error; and jobStartTime is
\* null iff DEFAULT.
ProgressStatuses == {"QUEUED", "EXTRACTING", "DETECTING_LANGUAGE", "ANALYZING", "TRANSLATING"}

C27_FieldsAgree ==
  /\ (state.uiState = "DEFAULT") <=> (state.jobStatus = Null)
  /\ (state.uiState = "PROCESSING") <=>
       (state.jobStatus # Null /\ state.jobStatus[1] \in ProgressStatuses)
  /\ (state.uiState = "COMPLETE") <=> (state.jobStatus = Some("COMPLETED"))
  /\ (state.uiState = "COMPLETE") <=> (state.currentResult # Null)
  /\ (state.uiState = "ERROR") <=> (state.jobStatus = Some("FAILED"))
  /\ (state.uiState = "ERROR") <=> (state.error # Null)
  /\ (state.jobStartTime = Null) <=> (state.uiState = "DEFAULT")

C27_Witness ==
  /\ state.uiState = "ERROR"
  /\ state.jobStatus = Some("FAILED")
  /\ state.error # Null
  /\ state.currentResult = Null
  /\ state.jobStartTime # Null
  /\ Len(dispatched) >= 3

\* C28: once one of the two concurrent translation calls has failed and the
\* job is FAILED, the step in which the other call settles, with success or
\* with failure, dispatches nothing and leaves the reducer's state alone; the
\* error shown remains the one of the call that failed first.
FirstFailure ==
  IF job.translatedAnalysis = "rejected" THEN job.analysisValue[1].error
  ELSE job.contentValue[1].error

OtherSettles ==
  \/ /\ job.translatedAnalysis = "rejected"
     /\ job.translatedContent = Pending
     /\ job'.translatedContent \notin {Pending, "none"}
  \/ /\ job.translatedContent = "rejected"
     /\ job.translatedAnalysis = Pending
     /\ job'.translatedAnalysis \notin {Pending, "none"}

C28_LateSettleChangesNothing ==
  [][(state.jobStatus = Some("FAILED") /\ OtherSettles) =>
       /\ dispatched' = dispatched
       /\ state' = state
       /\ state'.error = Some(FirstFailure)]_vars

C28_Witness ==
  /\ state.jobStatus = Some("FAILED")
  /\ job.translatedContent = "rejected"
  /\ job.translatedAnalysis = "unobserved"
  /\ "model:translateAnalysis" \in calls
  /\ state.error = Some(job.contentValue[1].error)

\* C30: for the same input and the same answers of the relay and of the
\* model, each operation of the direct service and of the proxied service
\* either returns the same value in both or fails in both.
SameOutcome(a, b) == a.ok = b.ok /\ (a.ok => a.value = b.value)

C30_ServicesAgree ==
  probe.fn = "both" => SameOutcome(probe.direct, probe.proxied)

====
